---- MODULE Spec2Model ----
(***************************************************************************)
(* Model of the detection utilities of src/utils/util.py:                  *)
(*   non_max_suppression, Assigner.forward / ComputeLoss.__call__,         *)
(*   BoxLoss.df_loss, compute_metric and compute_ap.                       *)
(*                                                                         *)
(* Numbers.  Tensors of floats are modelled by integers:                   *)
(*   - confidences and class scores in thousandths (0.25 is 250),          *)
(*   - the IoU threshold in hundredths (0.5 is 50), an IoU comparison      *)
(*     inter / union > t being evaluated as inter * 100 > t * union,       *)
(*   - box coordinates in pixels, widths and heights even, so that the     *)
(*     halves taken by wh2xy are integers,                                 *)
(*   - wall-clock time in hundredths of a second.                          *)
(* Every input used is exactly representable in the program's floats.      *)
(***************************************************************************)
EXTENDS Integers, Sequences, FiniteSets, TLC

VARIABLES
    pc,             \* position of the running call
    \* ---- non_max_suppression
    outputs,        \* argument: per image, the sequence of predicted positions
    nc,             \* argument: number of classes
    conf_threshold, \* argument
    iou_threshold,  \* argument
    index,          \* loop variable of `for index, x in enumerate(outputs)` (1-based)
    x,              \* local x of the current iteration (detections matrix, sorted)
    output,         \* the list that is returned
    elapsed,        \* time.time() - t at the last reading of the clock
    \* ---- Assigner.forward
    top_k,          \* self.top_k
    alpha,          \* self.alpha, in halves (2 for the default 1.0)
    pd_scores,      \* argument: [image][anchor][class], in levels
    ciou,           \* [image][gt][anchor]: compute_iou(gt box, predicted box), the value
                    \* that the argument pd_bboxes stands for, in halves; a CIoU can be
                    \* below zero
    anc_points,     \* argument: [anchor] -> <<x, y>>
    gt_labels,      \* argument: [image][gt]
    gt_bboxes,      \* argument: [image][gt] -> <<x1, y1, x2, y2>>
    mask_gt,        \* argument: [image][gt] in {0, 1}
    overlaps,       \* locals of forward, [image][gt][anchor]
    align_metric,
    mask_top_k,
    mask_pos,
    fg_mask,        \* [image][anchor]
    assigned,       \* the tuple that forward returns
    \* ---- ComputeLoss.__call__
    targets,        \* argument: the instances, [idx, cls, box], box in 1/80 of the image sides
    pred_scores,    \* class logits of outputs, [image][anchor][class]
    pred_fit,       \* [image][anchor]: how the box decoded from pred_distri lies to the
                    \* ground truths around the anchor, which fixes its CIoU with each
    pred_distri,    \* [image][anchor]: df_loss of the anchor's distribution, in units
    x_kpt,          \* [image]: kpt_loss and kpt_bce of the image's foreground, in units
    loss,           \* the five terms of the loss and the returned scalar
    \* ---- compute_metric
    met_output,     \* argument output: the detections of an image, [box, conf, cls]
    met_target,     \* argument target: the labels of the image, [cls, box]
    iou_v,          \* argument: the thresholds, in hundredths
    iou_i,          \* loop variable i of `for i in range(len(iou_v))` (1-based)
    matches,        \* local matches of the last iteration, [label, detect, iou]
    correct,        \* [detection][threshold]
    \* ---- compute_ap
    tp,             \* argument: [detection][threshold]
    conf,           \* argument, in thousandths
    pred_cls,       \* argument
    target_cls,     \* argument
    ci,             \* loop variable of `for ci, c in enumerate(unique_classes)` (1-based)
    ap,             \* [class][threshold], numerators over ApDen
    m_pre,          \* local of the loop: the envelope, for each threshold j of the
                    \* class that was processed last, numerators over PreDen
    returned,       \* map50 and mean_ap of the returned tuple
    \* ---- BoxLoss.forward (the DFL part) and BoxLoss.df_loss, for one foreground anchor
    dfl_ch,         \* self.dfl_ch: the distribution of a side has dfl_ch + 1 bins
    dfl_anchor,     \* anchor_points[fg_mask], in hundredths of a cell
    dfl_bbox,       \* target_bboxes[fg_mask], in hundredths of a cell
    pred_dist,      \* [side][bin]: -log softmax of the side's logits, in hundredths
    target,         \* [side]: the distances to the sides of the box, in hundredths
    tl,             \* [side]
    tr,             \* [side]
    wl,             \* [side], in hundredths
    wr,             \* [side], in hundredths
    loss_dfl        \* what df_loss returns, as the numerator over 4 * 10000

nmsVars == <<outputs, nc, conf_threshold, iou_threshold, index, x, output, elapsed>>
asgIn == <<top_k, alpha, pd_scores, ciou, anc_points, gt_labels, gt_bboxes, mask_gt>>
asgLoc == <<overlaps, align_metric, mask_top_k, mask_pos, fg_mask>>
asgVars == <<asgIn, asgLoc, assigned>>
lossVars == <<targets, pred_scores, pred_fit, pred_distri, x_kpt, loss>>
metVars == <<met_output, met_target, iou_v, iou_i, matches, correct>>
apVars == <<tp, conf, pred_cls, target_cls, ci, ap, m_pre, returned>>
dflVars == <<dfl_ch, dfl_anchor, dfl_bbox, pred_dist, target, tl, tr, wl, wr, loss_dfl>>
vars == <<pc, nmsVars, asgVars, lossVars, metVars, apVars, dflVars>>

(***************************************************************************)
(* Bounds of the model.                                                    *)
(***************************************************************************)
MaxN == 3       \* positions per image in the enumerated single-image inputs
MaxNc == 2      \* classes
MaxBs == 2      \* images per batch
MaxDt == 2      \* an iteration takes 0..MaxDt steps of 0.35 s
MaxAnchors == 3 \* anchors of the feature map given to the Assigner
MaxGt == 3      \* ground-truth rows per image (max_boxes)
MaxTopK == 2    \* top_k of the Assigner
MaxTargets == 2 \* instances in the targets of ComputeLoss
MaxLabels == 2  \* labels of the image given to compute_metric
MaxOutputs == 3 \* detections of the image given to compute_metric
MaxPred == 3    \* detections given to compute_ap
MaxTgt == 3     \* labels given to compute_ap
MaxDflCh == 3   \* dfl_ch of BoxLoss

(***************************************************************************)
(* Generic helpers.                                                        *)
(***************************************************************************)
\* f itself; comparing f makes TLC tabulate a function given by a rule, so that
\* the rule is applied once per argument and not once per use
Tab(f) == IF f = f THEN f ELSE f
Max2(a, b) == IF a >= b THEN a ELSE b
Min2(a, b) == IF a <= b THEN a ELSE b
Range(s) == {s[k] : k \in 1..Len(s)}
SeqMax(s) == CHOOSE m \in Range(s) : \A v \in Range(s) : v <= m
\* first index of the maximum (torch.max / argmax over a row)
ArgMaxFirst(s) == CHOOSE k \in 1..Len(s) :
                     /\ s[k] = SeqMax(s)
                     /\ \A l \in 1..(k - 1) : s[l] # s[k]

(***************************************************************************)
(* non_max_suppression, src/utils/util.py:119-178                          *)
(***************************************************************************)
max_wh == 7680
max_det == 300
max_nms == 30000

\* wh2xy: (center x, center y, width, height) to (x1, y1, x2, y2)
wh2xy(b) == <<b[1] - b[3] \div 2, b[2] - b[4] \div 2,
              b[1] + b[3] \div 2, b[2] + b[4] \div 2>>

\* xc = outputs[:, 4:mi].amax(1) > conf_threshold, for one image
xc(img) == [p \in 1..Len(img) |-> SeqMax(img[p].cls) > conf_threshold]

\* x = x.transpose(0, -1)[xc[index]]
Candidates(img) == LET m == xc(img)
                       keep == {p \in 1..Len(img) : m[p]}
                       rank == Tab([p \in keep |-> Cardinality({q \in keep : q < p}) + 1])
                   IN Tab([k \in 1..Cardinality(keep) |-> img[CHOOSE p \in keep : rank[p] = k]])

\* nc > 1: i, j = (cls > conf_threshold).nonzero().T, one row per (position, class)
\* pair in row-major order, x = cat(box[i], x[i, 4 + j], j, mask[i])
MultiLabelRows(cands) ==
    LET n == Len(cands)
        pairs == {ij \in (1..n) \X (1..nc) : cands[ij[1]].cls[ij[2]] > conf_threshold}
        key(ij) == (ij[1] - 1) * nc + ij[2]
        rank == Tab([ij \in pairs |-> Cardinality({q \in pairs : key(q) < key(ij)}) + 1])
    IN Tab([k \in 1..Cardinality(pairs) |->
              LET ij == CHOOSE q \in pairs : rank[q] = k
              IN [box |-> wh2xy(cands[ij[1]].box), conf |-> cands[ij[1]].cls[ij[2]],
                  cls |-> ij[2] - 1, mask |-> cands[ij[1]].mask]])

\* else: conf, j = cls.max(1), x = cat(box, conf, j, mask)[conf > conf_threshold]
BestClassRows(cands) ==
    LET all == Tab([k \in 1..Len(cands) |->
                      [box |-> wh2xy(cands[k].box), conf |-> SeqMax(cands[k].cls),
                       cls |-> ArgMaxFirst(cands[k].cls) - 1, mask |-> cands[k].mask]])
    IN SelectSeq(all, LAMBDA r : r.conf > conf_threshold)

\* lines 152-159: the detections matrix (xyxy, conf, cls, mask)
Detections(cands) == IF nc > 1 THEN MultiLabelRows(cands) ELSE BestClassRows(cands)

\* mutant of ArgsortDescending: descending=True is left out
ArgsortAscending(keys) ==
    LET n == Len(keys)
        tied == {k \in 1..n : \E l \in 1..n : l # k /\ keys[l] = keys[k]}
        below == Tab([k \in 1..n |-> Cardinality({l \in 1..n : keys[l] < keys[k]})])
    IN {LET pos == Tab([k \in 1..n |->
                          below[k] + 1 + IF k \in tied
                                         THEN Cardinality({l \in tied : keys[l] = keys[k] /\ tb[l] < tb[k]})
                                         ELSE 0])
        IN Tab([p \in 1..n |-> CHOOSE k \in 1..n : pos[k] = p])
        : tb \in Permutations(tied)}
\* x[:, 4].argsort(descending=True): every order of the rows by decreasing
\* confidence; the order of rows of equal confidence is not specified by torch.
ArgsortDescending(keys) ==
    LET n == Len(keys)
        tied == {k \in 1..n : \E l \in 1..n : l # k /\ keys[l] = keys[k]}
        above == Tab([k \in 1..n |-> Cardinality({l \in 1..n : keys[l] > keys[k]})])
    IN {LET pos == Tab([k \in 1..n |->
                          above[k] + 1 + IF k \in tied
                                         THEN Cardinality({l \in tied : keys[l] = keys[k] /\ tb[l] < tb[k]})
                                         ELSE 0])
        IN Tab([p \in 1..n |-> CHOOSE k \in 1..n : pos[k] = p])
        : tb \in Permutations(tied)}

\* mutant of OffsetBox: the class index is not scaled by max_wh
OffsetBoxUnscaled(r) == <<r.box[1] + r.cls, r.box[2] + r.cls, r.box[3] + r.cls, r.box[4] + r.cls>>
\* boxes = x[:, :4] + c with c = x[:, 5:6] * max_wh
OffsetBox(r) == LET c == r.cls * max_wh
                IN <<r.box[1] + c, r.box[2] + c, r.box[3] + c, r.box[4] + c>>

Area(b) == (b[3] - b[1]) * (b[4] - b[2])
Inter(a, b) == Max2(0, Min2(a[3], b[3]) - Max2(a[1], b[1]))
               * Max2(0, Min2(a[4], b[4]) - Max2(a[2], b[2]))
\* mutant of IouAbove: the intersection is not taken off the union
IouAboveSumOfAreas(a, b, t) == Inter(a, b) * 100 > t * (Area(a) + Area(b))
\* inter / (area_a + area_b - inter) > t / 100
IouAbove(a, b, t) == Inter(a, b) * 100 > t * (Area(a) + Area(b) - Inter(a, b))

\* one step of the greedy pass of torchvision.ops.nms: box k is kept unless a box
\* kept before it overlaps it above the threshold
NmsStep(boxes, t, keep, k) ==
    IF \E j \in 1..Len(keep) : IouAbove(boxes[keep[j]], boxes[k], t)
    THEN keep ELSE Append(keep, k)

RECURSIVE NmsFold(_, _, _, _, _)
NmsFold(boxes, t, keep, lo, hi) ==
    IF lo > hi THEN keep
    ELSE IF lo = hi THEN NmsStep(boxes, t, keep, lo)
    ELSE LET mid == (lo + hi) \div 2
             left == NmsFold(boxes, t, keep, lo, mid)
         IN IF Len(left) >= 0 THEN NmsFold(boxes, t, left, mid + 1, hi) ELSE left

\* torchvision.ops.nms(boxes, scores, iou_threshold) on rows already in decreasing
\* score order (its own sort is stable): the kept indices, in that order
nms(boxes, t) == NmsFold(boxes, t, <<>>, 1, Len(boxes))

\* mutant of SortAndSuppress: i = i[:max_det] is left out
SortAndSuppressAll(rows, order) ==
    LET n == Min2(Len(rows), max_nms)
        xs == Tab([k \in 1..n |-> rows[order[k]]])
        boxes == Tab([k \in 1..n |-> OffsetBox(xs[k])])
        i == nms(boxes, iou_threshold)
    IN <<xs, [k \in 1..Len(i) |-> xs[i[k]]]>>
\* lines 166-174 for one order of the rows: <<x, x[i]>>
SortAndSuppress(rows, order) ==
    LET n == Min2(Len(rows), max_nms)
        xs == Tab([k \in 1..n |-> rows[order[k]]])
        boxes == Tab([k \in 1..n |-> OffsetBox(xs[k])])
        i == nms(boxes, iou_threshold)
        m == Min2(Len(i), max_det)
    IN <<xs, [k \in 1..m |-> xs[i[k]]]>>

\* time_limit = 0.5 + 0.05 * bs
bs == Len(outputs)
time_limit == 50 + 5 * bs
Durations == {d * 35 : d \in 0..MaxDt}

(***************************************************************************)
(* The inputs of non_max_suppression that are enumerated.                  *)
(***************************************************************************)
\* three boxes in a row, each overlapping the next above 0.5 and the first and the
\* third below it, and a box outside the 7680 pixels of max_wh
BoxCat == << <<5, 5, 10, 10>>, <<7, 5, 10, 10>>, <<9, 5, 10, 10>> >>
FarBox == <<7685, 7685, 10, 10>>
\* scores of the first two classes; further classes score 0.1
ScoreCat == << <<900, 100>>, <<800, 100>>, <<850, 700>> >>
LowScore == <<200, 100>>
Scores(n, s) == [j \in 1..n |-> IF j <= 2 THEN s[j] ELSE 100]
\* the catalogue of positions for n classes (a single class has no second score)
PosCatSeq(n) ==
    LET sc == IF n = 1 THEN SubSeq(ScoreCat, 1, 2) ELSE ScoreCat
        m == Len(BoxCat)
    IN [c \in 1..(m * Len(sc)) |->
           [box |-> BoxCat[((c - 1) % m) + 1], cls |-> Scores(n, sc[((c - 1) \div m) + 1])]]
       \o << [box |-> FarBox, cls |-> Scores(n, ScoreCat[1])],
             [box |-> BoxCat[1], cls |-> Scores(n, LowScore)] >>
NumPos(n) == Len(PosCatSeq(n))
PosCat(n, c) == PosCatSeq(n)[c]
\* an image: positions of the catalogue; the mask channel carries the position's
\* number.  Positions are listed in catalogue order: the result of the call
\* depends on their order only through the order of equal confidences, which
\* ArgsortDescending leaves open.
ImageOf(n, s) == [p \in 1..Len(s) |-> [box |-> PosCat(n, s[p]).box,
                                       cls |-> PosCat(n, s[p]).cls, mask |-> p]]
SmallImages(n) ==
    UNION {{ImageOf(n, s) : s \in {f \in [1..len -> 1..NumPos(n)] :
                                      \A p \in 1..(len - 1) : f[p] <= f[p + 1]}}
           : len \in 0..MaxN}
\* a crowded image: f well separated boxes of class 0 of distinct confidences
Crowd(n, f) == [p \in 1..f |-> [box |-> <<100 + 20 * p, 5, 10, 10>>,
                                cls |-> [j \in 1..n |-> IF j = 1 THEN 600 - p ELSE 0],
                                mask |-> p]]
\* the images of a batch of several images: one position each
PoolImages(n) == {ImageOf(n, <<c>>) : c \in {1, NumPos(n)}}
Batches(n) ==
    {<<img>> : img \in SmallImages(n)}
    \cup {<<Crowd(n, max_det + 1)>>}
    \cup UNION {[1..b -> PoolImages(n)] : b \in 2..MaxBs}

\* the variables of Assigner.forward while no Assigner runs
AsgIdle ==
    /\ top_k = 0 /\ alpha = 0 /\ pd_scores = <<>> /\ ciou = <<>> /\ anc_points = <<>>
    /\ gt_labels = <<>> /\ gt_bboxes = <<>> /\ mask_gt = <<>>
    /\ overlaps = <<>> /\ align_metric = <<>> /\ mask_top_k = <<>>
    /\ mask_pos = <<>> /\ fg_mask = <<>> /\ assigned = <<>>
\* the variables of ComputeLoss.__call__ while it does not run
LossIdle ==
    /\ targets = <<>> /\ pred_scores = <<>> /\ pred_fit = <<>>
    /\ pred_distri = <<>> /\ x_kpt = <<>> /\ loss = <<>>
\* the variables of BoxLoss.df_loss while it does not run
DflIdle ==
    /\ dfl_ch = 0 /\ dfl_anchor = <<>> /\ dfl_bbox = <<>> /\ pred_dist = <<>>
    /\ target = <<>> /\ tl = <<>> /\ tr = <<>> /\ wl = <<>> /\ wr = <<>> /\ loss_dfl = 0
\* the variables of compute_metric and of compute_ap while they do not run
MetIdle ==
    /\ met_output = <<>> /\ met_target = <<>> /\ iou_v = <<>>
    /\ iou_i = 0 /\ matches = <<>> /\ correct = <<>>
ApIdle ==
    /\ tp = <<>> /\ conf = <<>> /\ pred_cls = <<>> /\ target_cls = <<>>
    /\ ci = 0 /\ ap = <<>> /\ m_pre = <<>> /\ returned = <<>>

NmsInit ==
    /\ AsgIdle
    /\ LossIdle
    /\ DflIdle
    /\ MetIdle
    /\ ApIdle
    /\ pc = "nms_loop"
    /\ nc \in 1..MaxNc
    /\ outputs \in Batches(nc)
    /\ conf_threshold = 250
    /\ iou_threshold = 50
    /\ index = 1
    /\ x = <<>>
    /\ output = [k \in 1..Len(outputs) |-> <<>>]
    /\ elapsed = 0

\* mutant of TimeLimitExceeded: the comparison is turned round
TimeLimitNotReached(now) == now < time_limit
\* lines 175-176: if (time.time() - t) > time_limit: break
TimeLimitExceeded(now) == now > time_limit

\* lines 145-165 for one image: the detections matrix before the sort
ImageRows(img) == Detections(Candidates(img))

\* lines 166-174 for one image: every <<x, x[i]>> the sort can lead to
ImageResults(rows) ==
    {SortAndSuppress(rows, order) :
        order \in ArgsortDescending(Tab([k \in 1..Len(rows) |-> rows[k].conf]))}

\* an iteration that ends at `continue` (lines 148-149, 164-165): no candidate
NmsSkip ==
    /\ pc = "nms_loop"
    /\ index <= bs
    /\ Len(ImageRows(outputs[index])) = 0
    /\ x' = <<>>
    /\ \E dt \in Durations : elapsed' = elapsed + dt
    /\ index' = index + 1
    /\ UNCHANGED <<pc, outputs, nc, conf_threshold, iou_threshold, output, asgVars, lossVars, metVars, apVars, dflVars>>

\* a whole iteration, lines 145-176
NmsProcess ==
    /\ pc = "nms_loop"
    /\ index <= bs
    /\ Len(ImageRows(outputs[index])) > 0
    /\ \E r \in ImageResults(ImageRows(outputs[index])) :
          /\ x' = r[1]
          /\ output' = [output EXCEPT ![index] = r[2]]
    /\ \E dt \in Durations :
          /\ elapsed' = elapsed + dt
          /\ IF TimeLimitExceeded(elapsed + dt)
             THEN pc' = "nms_done" /\ index' = index
             ELSE pc' = pc /\ index' = index + 1
    /\ UNCHANGED <<outputs, nc, conf_threshold, iou_threshold, asgVars, lossVars, metVars, apVars, dflVars>>

\* the loop is exhausted: return output
NmsReturn ==
    /\ pc = "nms_loop"
    /\ index > bs
    /\ pc' = "nms_done"
    /\ UNCHANGED <<nmsVars, asgVars, lossVars, metVars, apVars, dflVars>>

NmsNext == NmsSkip \/ NmsProcess \/ NmsReturn
SpecNms == NmsInit /\ [][NmsNext]_vars

(***************************************************************************)
(* Assigner.forward, src/utils/util.py:356-463                             *)
(*                                                                         *)
(* Numbers.  A class score is 1 or 4 eighths (0.125, 0.5) and a CIoU a     *)
(* number of halves (-1, 0, 1, 2 for -0.5, 0, 0.5, 1.0), which line 405    *)
(* clamps at zero; the alignment metric                                    *)
(* score^alpha * overlap^beta is computed on these integers, which keeps   *)
(* its order, its ties, its zeros and its quotients; the scores are        *)
(* squares, so that the power 0.5 is exact.  Target scores are in 1/512.   *)
(* Anchors and ground-truth rows are numbered from 1; target_gt_idx keeps  *)
(* the program's numbering from 0.                                         *)
(***************************************************************************)
beta == 6
Isqrt(n) == CHOOSE r \in 0..n : r * r = n

RECURSIVE Pow(_, _)
Pow(b, e) == IF e = 0 THEN 1 ELSE b * Pow(b, e - 1)

size == Len(pd_scores)
max_boxes == Len(gt_bboxes[1])
n_anchors == Len(anc_points)
num_classes == Len(pd_scores[1][1])
bg_idx == num_classes

Images == 1..size
Gts == 1..max_boxes
Anchors == 1..n_anchors

\* min of (anchor - left-top, right-bottom - anchor) > 1e-9
InsideBox(p, box) ==
    Min2(Min2(p[1] - box[1], p[2] - box[2]), Min2(box[3] - p[1], box[4] - p[2])) > 0
mask_in_gts(b, g, a) == IF InsideBox(anc_points[a], gt_bboxes[b][g]) THEN 1 ELSE 0
true_mask(b, g, a) == mask_in_gts(b, g, a) * mask_gt[b][g] # 0

\* pd_scores[index[0], :, index[1]] on true_mask, zero elsewhere
BboxScores ==
    Tab([b \in Images |-> [g \in Gts |-> [a \in Anchors |->
            IF true_mask(b, g, a) THEN pd_scores[b][a][gt_labels[b][g] + 1] ELSE 0]]])
\* compute_iou(...).clamp(0) on true_mask, zero elsewhere
Overlaps ==
    Tab([b \in Images |-> [g \in Gts |-> [a \in Anchors |->
            IF true_mask(b, g, a) THEN Max2(ciou[b][g][a], 0) ELSE 0]]])
AlignMetric(scores, ov) ==
    Tab([b \in Images |-> [g \in Gts |-> [a \in Anchors |->
            Isqrt(Pow(scores[b][g][a], alpha)) * Pow(ov[b][g][a], beta)]]])

\* torch.topk over one row: any top_k anchors none of which is below an anchor left
\* out (the order among equal values is not specified)
TopKSets(m) ==
    {T \in SUBSET Anchors :
        /\ Cardinality(T) = top_k
        /\ \A a \in T : \A c \in Anchors \ T : m[a] >= m[c]}
\* count after the scatter_add_ loop: the indices of a row with mask_gt = 0 are
\* all filled with 0, the first anchor
CountRows(m, b, g) ==
    IF mask_gt[b][g] # 0
    THEN {[a \in Anchors |-> IF a \in T THEN 1 ELSE 0] : T \in TopKSets(m)}
    ELSE {[a \in Anchors |-> IF a = 1 THEN top_k ELSE 0]}

\* all sequences s with s[k] in sets[k]
RECURSIVE SeqProduct(_)
SeqProduct(sets) ==
    IF sets = <<>> THEN {<<>>}
    ELSE {<<h>> \o t : h \in Head(sets), t \in SeqProduct(Tail(sets))}

Counts(metric) ==
    SeqProduct([b \in Images |->
        SeqProduct([g \in Gts |-> CountRows(metric[b][g], b, g)])])

\* count.masked_fill_(count > 1, 0)
MaskTopK(count) ==
    Tab([b \in Images |-> [g \in Gts |-> [a \in Anchors |->
            IF count[b][g][a] > 1 THEN 0 ELSE count[b][g][a]]]])
MaskPos(mtk) ==
    Tab([b \in Images |-> [g \in Gts |-> [a \in Anchors |->
            mtk[b][g][a] * mask_in_gts(b, g, a) * mask_gt[b][g]]]])
RECURSIVE SeqSum(_)
SeqSum(s) == IF s = <<>> THEN 0 ELSE Head(s) + SeqSum(Tail(s))
\* mask_pos.sum(-2)
FgMask(mp) ==
    Tab([b \in Images |-> [a \in Anchors |-> SeqSum([g \in Gts |-> mp[b][g][a]])]])
\* the locals after line 428, for one outcome of topk
Masks(count) ==
    LET mtk == MaskTopK(count)
        mp == MaskPos(mtk)
    IN  [mask_top_k |-> mtk, mask_pos |-> mp, fg_mask |-> FgMask(mp)]

\* fg_mask.max()
FgMax(fm) == SeqMax([b \in Images |-> SeqMax(fm[b])])

\* is_max_overlaps with every maximum of the column marked
is_any_max_overlaps(b, g, a) ==
    IF overlaps[b][g][a] = SeqMax([h \in Gts |-> overlaps[b][h][a]]) THEN 1 ELSE 0
\* zeros with a 1 scattered at overlaps.argmax(1)
is_max_overlaps(b, g, a) ==
    IF g = ArgMaxFirst([h \in Gts |-> overlaps[b][h][a]]) THEN 1 ELSE 0
\* torch.where(mask_multi_gts, is_max_overlaps, mask_pos)
Resolved ==
    Tab([b \in Images |-> [g \in Gts |-> [a \in Anchors |->
            IF fg_mask[b][a] > 1 THEN is_max_overlaps(b, g, a) ELSE mask_pos[b][g][a]]]])

\* mask_pos.argmax(-2)
TargetGtIdx ==
    Tab([b \in Images |-> [a \in Anchors |->
            ArgMaxFirst([g \in Gts |-> mask_pos[b][g][a]]) - 1]])
\* gt_labels.long().flatten()[target_gt_idx]: the index without the offset of the image
TargetLabelsOfFirstImage(tgi) ==
    Tab([b \in Images |-> [a \in Anchors |-> gt_labels[1][tgi[b][a] + 1]]])
\* gt_labels.long().flatten()[target_idx], target_idx = target_gt_idx + batch_index * max_boxes
TargetLabels(tgi) ==
    Tab([b \in Images |-> [a \in Anchors |-> gt_labels[b][tgi[b][a] + 1]]])
\* gt_bboxes.view(-1, 4)[target_idx]
TargetBboxes(tgi) ==
    Tab([b \in Images |-> [a \in Anchors |-> gt_bboxes[b][tgi[b][a] + 1]]])
\* align_metric *= mask_pos
MaskedMetric ==
    Tab([b \in Images |-> [g \in Gts |-> [a \in Anchors |->
            align_metric[b][g][a] * mask_pos[b][g][a]]]])
\* (overlaps * mask_pos).amax(-1)
PosOverlaps ==
    Tab([b \in Images |-> [g \in Gts |->
            SeqMax([a \in Anchors |-> overlaps[b][g][a] * mask_pos[b][g][a]])]])
\* align_metric * pos_overlaps / (pos_align_metrics + eps), in 1/512: the overlap
\* is a number of halves and the greatest metric divides 256; eps makes
\* 0 / (0 + eps) = 0 and changes no other quotient by more than 1e-9
NormAlignMetric(am, po) ==
    Tab([b \in Images |-> [g \in Gts |-> [a \in Anchors |->
            LET pam == SeqMax(am[b][g])
            IN  IF pam = 0 THEN 0 ELSE (am[b][g][a] * po[b][g] * 256) \div pam]]])
\* the one-hot of target_labels, zeroed off the foreground, times norm.amax(-2)
TargetScores(labels, norm) ==
    Tab([b \in Images |-> [a \in Anchors |-> [c \in 1..num_classes |->
            (IF fg_mask[b][a] > 0 /\ c - 1 = labels[b][a] THEN 1 ELSE 0)
                * SeqMax([g \in Gts |-> norm[b][g][a]])]]])
\* target_bboxes, target_scores, fg_mask.bool(), target_gt_idx
Returned(tgi, am) ==
    << TargetBboxes(tgi),
       TargetScores(TargetLabels(tgi), NormAlignMetric(am, PosOverlaps)),
       Tab([b \in Images |-> [a \in Anchors |-> fg_mask[b][a] > 0]]),
       tgi >>
\* the tuple returned when max_boxes == 0
ReturnedEmpty ==
    << [b \in Images |-> [a \in Anchors |-> bg_idx]],
       [b \in Images |-> [a \in Anchors |-> <<0, 0, 0, 0>>]],
       [b \in Images |-> [a \in Anchors |-> [c \in 1..num_classes |-> 0]]],
       [b \in Images |-> [a \in Anchors |-> 0]],
       [b \in Images |-> [a \in Anchors |-> 0]] >>

(***************************************************************************)
(* The inputs of Assigner.forward that are enumerated: one row of anchors  *)
(* of stride 8, ground-truth boxes over the first two anchors, over the    *)
(* second and the third, and over the whole row.                           *)
(***************************************************************************)
\* make_anchors on one row of n cells, times the stride 8
AnchorPoints(n) == [a \in 1..n |-> <<8 * a - 4, 4>>]
GtCat == << [label |-> 0, box |-> <<0, 0, 16, 8>>],
            [label |-> 1, box |-> <<8, 0, 24, 8>>],
            [label |-> 0, box |-> <<0, 0, 8 * MaxAnchors, 8>>] >>
\* a row of gt left at zero by ComputeLoss
PadRow == [label |-> 0, box |-> <<0, 0, 0, 0>>]
\* gt_bboxes.sum(2).gt_(0)
MaskGtOf(box) == IF box[1] + box[2] + box[3] + box[4] > 0 THEN 1 ELSE 0
Injective(s) == \A i, j \in 1..Len(s) : i # j => s[i] # s[j]
\* the rows of one image: different boxes of the catalogue in any order, padded or not
GtRows ==
    LET real == {s \in UNION {[1..n -> 1..Len(GtCat)] : n \in 1..Min2(MaxGt, Len(GtCat))} :
                    Injective(s)}
        rows(s) == [k \in 1..Len(s) |-> GtCat[s[k]]]
    IN  {rows(s) : s \in real}
            \cup {Append(rows(s), PadRow) : s \in {r \in real : Len(r) < MaxGt}}
ScoreProfiles(n) ==
    { [a \in 1..n |-> <<1, 1>>],
      [a \in 1..n |-> IF a % 2 = 1 THEN <<4, 1>> ELSE <<1, 4>>] }
\* the predicted box of an anchor: away from every box (a CIoU below zero), all
\* boxes around the anchor alike, or fitting the first or the last of them
Prefs == {"zero", "flat", "first", "last"}
Containing(rows, p) ==
    {g \in 1..Len(rows) : MaskGtOf(rows[g].box) # 0 /\ InsideBox(p, rows[g].box)}
CiouOf(rows, pts, pref) ==
    [g \in 1..Len(rows) |-> [a \in 1..Len(pts) |->
        LET inside == Containing(rows, pts[a])
        IN  IF g \notin inside THEN 0
            ELSE IF pref[a] = "zero" THEN -1
            ELSE IF pref[a] = "flat" THEN 1
            ELSE IF pref[a] = "first" THEN (IF \A h \in inside : g <= h THEN 2 ELSE 1)
            ELSE (IF \A h \in inside : g >= h THEN 2 ELSE 1)]]
AsgImage(rows, prof, pref) ==
    [pd_scores |-> prof,
     ciou      |-> CiouOf(rows, AnchorPoints(MaxAnchors), pref),
     gt_labels |-> [g \in 1..Len(rows) |-> rows[g].label],
     gt_bboxes |-> [g \in 1..Len(rows) |-> rows[g].box],
     mask_gt   |-> [g \in 1..Len(rows) |-> MaskGtOf(rows[g].box)]]
AsgPool ==
    LET flat == [a \in 1..MaxAnchors |-> <<1, 1>>]
    IN  { AsgImage(<<GtCat[1], GtCat[2]>>, flat, [a \in 1..MaxAnchors |-> "flat"]),
          AsgImage(<<GtCat[3], PadRow>>, flat, [a \in 1..MaxAnchors |-> "first"]) }
AsgBatches ==
    {<<AsgImage(rows, prof, pref)>> :
        rows \in GtRows \cup {<<>>}, prof \in ScoreProfiles(MaxAnchors),
        pref \in [1..MaxAnchors -> Prefs]}
    \cup UNION {[1..n -> AsgPool] : n \in 2..MaxBs}
    \cup {[b \in 1..n |-> AsgImage(<<>>, [a \in 1..MaxAnchors |-> <<1, 1>>],
                                   [a \in 1..MaxAnchors |-> "zero"])] : n \in 2..MaxBs}

\* the variables of non_max_suppression while it does not run
NmsIdle ==
    /\ outputs = <<>> /\ nc = 0 /\ conf_threshold = 0 /\ iou_threshold = 0
    /\ index = 0 /\ x = <<>> /\ output = <<>> /\ elapsed = 0

AsgInit ==
    /\ NmsIdle
    /\ pc = "asg_called"
    /\ LossIdle
    /\ DflIdle
    /\ MetIdle
    /\ ApIdle
    /\ top_k \in 1..MaxTopK
    /\ alpha = 2
    /\ anc_points = AnchorPoints(MaxAnchors)
    /\ \E batch \in AsgBatches :
        /\ pd_scores = [b \in 1..Len(batch) |-> batch[b].pd_scores]
        /\ ciou = [b \in 1..Len(batch) |-> batch[b].ciou]
        /\ gt_labels = [b \in 1..Len(batch) |-> batch[b].gt_labels]
        /\ gt_bboxes = [b \in 1..Len(batch) |-> batch[b].gt_bboxes]
        /\ mask_gt = [b \in 1..Len(batch) |-> batch[b].mask_gt]
    /\ overlaps = <<>> /\ align_metric = <<>> /\ mask_top_k = <<>>
    /\ mask_pos = <<>> /\ fg_mask = <<>> /\ assigned = <<>>

\* lines 372-381
AssignerEmpty ==
    /\ pc = "asg_called"
    /\ max_boxes = 0
    /\ assigned' = ReturnedEmpty
    /\ pc' = "asg_returned"
    /\ UNCHANGED <<nmsVars, asgIn, asgLoc, lossVars, metVars, apVars, dflVars>>

MaskOutcomes(metric) == {Masks(count) : count \in Counts(metric)}

\* lines 382-428; torch.topk raises when top_k exceeds the number of anchors
AssignerMasks ==
    /\ pc = "asg_called"
    /\ max_boxes # 0
    /\ top_k <= n_anchors
    /\ overlaps' = Overlaps
    /\ align_metric' = AlignMetric(BboxScores, Overlaps)
    /\ \E r \in MaskOutcomes(AlignMetric(BboxScores, Overlaps)) :
        /\ mask_top_k' = r.mask_top_k
        /\ mask_pos' = r.mask_pos
        /\ fg_mask' = r.fg_mask
    /\ pc' = "asg_resolve"
    /\ UNCHANGED <<nmsVars, asgIn, assigned, lossVars, metVars, apVars, dflVars>>

\* lines 429-435
AssignerResolve ==
    /\ pc = "asg_resolve"
    /\ IF FgMax(fg_mask) > 1
       THEN /\ mask_pos' = Resolved
            /\ fg_mask' = FgMask(Resolved)
       ELSE UNCHANGED <<mask_pos, fg_mask>>
    /\ pc' = "asg_targets"
    /\ UNCHANGED <<nmsVars, asgIn, overlaps, align_metric, mask_top_k, assigned, lossVars, metVars, apVars, dflVars>>

\* lines 436-463
AssignerTargets ==
    /\ pc = "asg_targets"
    /\ align_metric' = MaskedMetric
    /\ assigned' = Returned(TargetGtIdx, MaskedMetric)
    /\ pc' = "asg_returned"
    /\ UNCHANGED <<nmsVars, asgIn, overlaps, mask_top_k, mask_pos, fg_mask, lossVars, metVars, apVars, dflVars>>

AsgNext == AssignerEmpty \/ AssignerMasks \/ AssignerResolve \/ AssignerTargets
SpecAssign == AsgInit /\ [][AsgNext]_vars

(***************************************************************************)
(* ComputeLoss.__call__, src/utils/util.py:544-634, on one feature map of  *)
(* one row of cells of stride 8.                                           *)
(*                                                                         *)
(* Numbers.  A class logit is "0" or "ln(1/7)", of sigmoid 0.5 and 0.125.  *)
(* A binary cross entropy is in 1/51200 (logarithms rounded to 1/100,      *)
(* targets in 1/512); a gain is a number of halves; the results of         *)
(* df_loss, kpt_loss and kpt_bce are whole units.  The five terms of the   *)
(* loss are numerators over one denominator.                               *)
(***************************************************************************)
LossTopK == 10
LossAlpha == 1
\* cells of the feature map: as many as the assigner takes per ground truth
LossAnchors == LossTopK
\* self.params, in halves: cls 0.5, box 7.5, dfl 1.5, kpt 12, obj 1
params == [cls |-> 1, box |-> 15, dfl |-> 3, kpt |-> 24, obj |-> 2]

batch_size == Len(pred_scores)
\* size = shape[2:] * stride[0], (h, w)
ImageSize == <<8, 8 * LossAnchors>>

Sigmoid(l) == IF l = "0" THEN 4 ELSE 1
\* -log(sigmoid) and -log(1 - sigmoid), in hundredths
NegLog(l) == IF l = "0" THEN 69 ELSE 208
NegLog1m(l) == IF l = "0" THEN 69 ELSE 13

\* the rows of targets of image j (numbered from 0), in their order
RECURSIVE RowsOf(_, _)
RowsOf(ts, j) ==
    IF ts = <<>> THEN <<>>
    ELSE IF Head(ts).idx = j THEN <<Head(ts)>> \o RowsOf(Tail(ts), j)
    ELSE RowsOf(Tail(ts), j)
\* counts.max()
MaxCount(ts, n) == SeqMax([j \in 1..n |-> Len(RowsOf(ts, j - 1))])
\* a row of gt: the box times size[[1, 0, 1, 0]], then from centre and size to corners
GtRow(t) ==
    LET cx == (t.box[1] * ImageSize[2]) \div 80
        cy == (t.box[2] * ImageSize[1]) \div 80
        w  == (t.box[3] * ImageSize[2]) \div 80
        h  == (t.box[4] * ImageSize[1]) \div 80
    IN  [label |-> t.cls,
         box |-> <<cx - w \div 2, cy - h \div 2, cx + w \div 2, cy + h \div 2>>]
\* gt[j]: the rows of image j, the rest left at zero
GtOf(ts, n, j) ==
    IF Len(ts) = 0 THEN <<>>
    ELSE LET rows == RowsOf(ts, j - 1)
         IN  [k \in 1..MaxCount(ts, n) |->
                IF k <= Len(rows) THEN GtRow(rows[k]) ELSE PadRow]
Gt == Tab([j \in 1..batch_size |-> GtOf(targets, batch_size, j)])

\* lines 545-592: the targets, the decoded predictions and the call of the assigner
LossTargets ==
    /\ pc = "loss_called"
    /\ top_k' = LossTopK
    /\ alpha' = LossAlpha
    /\ pd_scores' = [b \in 1..batch_size |-> [a \in 1..LossAnchors |->
                        [c \in 1..Len(pred_scores[b][a]) |-> Sigmoid(pred_scores[b][a][c])]]]
    /\ anc_points' = AnchorPoints(LossAnchors)
    /\ gt_labels' = [b \in 1..batch_size |-> [g \in 1..Len(Gt[b]) |-> Gt[b][g].label]]
    /\ gt_bboxes' = [b \in 1..batch_size |-> [g \in 1..Len(Gt[b]) |-> Gt[b][g].box]]
    /\ mask_gt' = [b \in 1..batch_size |-> [g \in 1..Len(Gt[b]) |-> MaskGtOf(Gt[b][g].box)]]
    /\ ciou' = [b \in 1..batch_size |->
                    CiouOf(Gt[b], AnchorPoints(LossAnchors), pred_fit[b])]
    /\ pc' = "asg_called"
    /\ UNCHANGED <<nmsVars, asgLoc, assigned, lossVars, metVars, apVars, dflVars>>

\* line 593: four names take the tuple, or ValueError
LossUnpack ==
    /\ pc = "asg_returned"
    /\ pc' = IF Len(assigned) = 4 THEN "loss_terms" ELSE "loss_raised"
    /\ UNCHANGED <<nmsVars, asgVars, lossVars, metVars, apVars, dflVars>>

target_bboxes == assigned[1]
target_scores == assigned[2]
target_gt_idx == assigned[4]
Fg(b) == {a \in Anchors : assigned[3][b][a]}

\* target_scores.sum(), in 1/512
ScoresSum ==
    SeqSum([b \in Images |-> SeqSum([a \in Anchors |-> SeqSum(target_scores[b][a])])])
\* target_scores.sum() without the floor
ScoresSumNoFloor == ScoresSum
\* max(target_scores.sum(), 1)
target_scores_sum == Max2(ScoresSum, 512)
\* BCEWithLogitsLoss(reduction='none') of one logit, in 1/51200
Bce(l, t) == t * NegLog(l) + (512 - t) * NegLog1m(l)
BceSum ==
    SeqSum([b \in Images |-> SeqSum([a \in Anchors |->
        SeqSum([c \in 1..num_classes |-> Bce(pred_scores[b][a][c], target_scores[b][a][c])])])])
\* target_scores.sum(-1) at a foreground anchor
Weight(b, a) == SeqSum(target_scores[b][a])
\* 1 - compute_iou(pred_bboxes[fg_mask], target_bboxes[fg_mask]), in halves
OneMinusIou(b, a) == 2 - ciou[b][target_gt_idx[b][a] + 1][a]
\* the sums of BoxLoss.forward before the division by target_scores_sum
IouSum ==
    SeqSum([b \in Images |-> SeqSum([a \in Anchors |->
        IF a \in Fg(b) THEN OneMinusIou(b, a) * Weight(b, a) ELSE 0])])
DflSum ==
    SeqSum([b \in Images |-> SeqSum([a \in Anchors |->
        IF a \in Fg(b) THEN pred_distri[b][a] * Weight(b, a) ELSE 0])])
\* the sums of the keypoint loop over the images with a foreground anchor
KptSum == SeqSum([b \in Images |-> IF Fg(b) # {} THEN x_kpt[b].loc ELSE 0])
ObjSum == SeqSum([b \in Images |-> IF Fg(b) # {} THEN x_kpt[b].vis ELSE 0])
\* fg_mask.sum()
FgSum == SeqSum([b \in Images |-> Cardinality(Fg(b))])

\* the five terms after the gains, over the denominator 200 * target_scores_sum *
\* batch_size, and loss.sum()
Loss ==
    LET tss == target_scores_sum
        fg == FgSum # 0
        t == << params.cls * BceSum * batch_size,
                IF fg THEN params.box * IouSum * 50 * batch_size ELSE 0,
                IF fg THEN params.dfl * DflSum * 100 * batch_size ELSE 0,
                IF fg THEN params.kpt * KptSum * 100 * tss ELSE 0,
                IF fg THEN params.obj * ObjSum * 100 * tss ELSE 0 >>
    IN  [terms |-> t, sum |-> SeqSum(t), den |-> 200 * tss * batch_size]

\* lines 595-634
LossTerms ==
    /\ pc = "loss_terms"
    /\ loss' = Loss
    /\ pc' = "loss_returned"
    /\ UNCHANGED <<nmsVars, asgVars, targets, pred_scores, pred_fit, pred_distri, x_kpt, metVars, apVars, dflVars>>

(***************************************************************************)
(* The inputs of ComputeLoss.__call__ that are enumerated.                 *)
(***************************************************************************)
\* instances in 1/80 of the image sides <<cx, cy, w, h>>: the whole image, its
\* first two cells, and a box between the first two anchor points
InstCat == << [cls |-> 0, box |-> <<40, 40, 80, 80>>],
              [cls |-> 1, box |-> <<8, 40, 16, 80>>],
              [cls |-> 0, box |-> <<8, 40, 4, 40>>] >>
TargetsOf(n) ==
    LET inst == {[idx |-> j, cls |-> InstCat[k].cls, box |-> InstCat[k].box] :
                    j \in 0..(n - 1), k \in 1..Len(InstCat)}
    IN  UNION {[1..m -> inst] : m \in 0..MaxTargets}
LogitProfiles(n) ==
    { [a \in 1..n |-> <<"0", "ln(1/7)">>],
      [a \in 1..n |-> IF a % 2 = 1 THEN <<"0", "ln(1/7)">> ELSE <<"ln(1/7)", "0">>] }

LossInit ==
    /\ NmsIdle
    /\ AsgIdle
    /\ DflIdle
    /\ MetIdle
    /\ ApIdle
    /\ pc = "loss_called"
    /\ \E n \in 1..MaxBs :
        /\ targets \in TargetsOf(n)
        /\ \E prof \in LogitProfiles(LossAnchors) : pred_scores = [b \in 1..n |-> prof]
        /\ \E fit \in Prefs : pred_fit = [b \in 1..n |-> [a \in 1..LossAnchors |-> fit]]
        /\ pred_distri = [b \in 1..n |-> [a \in 1..LossAnchors |-> 1 + (a % 2)]]
        /\ x_kpt = [b \in 1..n |-> [loc |-> 1, vis |-> 1]]
    /\ loss = <<>>

LossNext ==
    \/ LossTargets
    \/ AssignerEmpty \/ AssignerMasks \/ AssignerResolve \/ AssignerTargets
    \/ LossUnpack
    \/ LossTerms
SpecLoss == LossInit /\ [][LossNext]_vars

(***************************************************************************)
(* compute_metric, src/utils/util.py:84-116, without keypoints.            *)
(*                                                                         *)
(* Numbers.  An IoU is kept as <<intersection, union>> and compared by     *)
(* cross multiplication; the 1e-7 added to the union is below the          *)
(* resolution of the program's floats for the boxes used, and no input has *)
(* an IoU equal to a threshold.  Labels and detections are numbered from 1.*)
(***************************************************************************)
\* (min(a2, b2) - max(a1, b1)).clamp(0).prod(2)
intersection(a, b) ==
    Max2(0, Min2(a[3], b[3]) - Max2(a[1], b[1])) * Max2(0, Min2(a[4], b[4]) - Max2(a[2], b[2]))
\* iou[label, detect]
iou(l, d) ==
    LET a == met_target[l].box
        b == met_output[d].box
    IN  << intersection(a, b),
           (a[3] - a[1]) * (a[4] - a[2]) + (b[3] - b[1]) * (b[4] - b[2]) - intersection(a, b) >>
IouGe(q, t) == q[1] * 100 >= t * q[2]
IouLess(q, r) == q[1] * r[2] < r[1] * q[2]

\* torch.where((iou >= iou_v[i]) & (target[:, 0:1] == output[:, 5])) with the IoU
\* of each pair: rows [label, detect, iou], by label and then by detection
Where(t) ==
    LET n == Len(met_target)
        m == Len(met_output)
        all == [k \in 1..(n * m) |->
                    [label |-> ((k - 1) \div m) + 1, detect |-> ((k - 1) % m) + 1,
                     iou |-> iou(((k - 1) \div m) + 1, ((k - 1) % m) + 1)]]
    IN  SelectSeq(all, LAMBDA r :
            /\ IouGe(r.iou, t)
            /\ met_target[r.label].cls = met_output[r.detect].cls)

\* for each row the number of rows of smaller IoU: the order and the ties of the
\* third column
IouRank(rows) ==
    Tab([k \in 1..Len(rows) |->
            Cardinality({l \in 1..Len(rows) : IouLess(rows[l].iou, rows[k].iou)})])
\* argsort()[::-1]: the rows by decreasing value, rows of equal value in an order
\* that numpy's default sort does not specify
ArgsortReversed(keys) == ArgsortDescending(keys)
\* numpy.unique(vals, return_index=True)[1]: for each value, by increasing value,
\* the index of its first occurrence
UniqueIndex(vals) ==
    LET first == {k \in 1..Len(vals) : \A l \in 1..(k - 1) : vals[l] # vals[k]}
    IN  [p \in 1..Cardinality(first) |->
            CHOOSE k \in first : Cardinality({l \in first : vals[l] < vals[k]}) = p - 1]
Take(rows, idx) == [p \in 1..Len(idx) |-> rows[idx[p]]]
\* mutant of Matches: the rows are not reduced to one per label
MatchesByDetect(sorted) ==
    Take(sorted, UniqueIndex([k \in 1..Len(sorted) |-> sorted[k].detect]))
\* lines 113-114: one row per detection, then one row per label
Matches(sorted) ==
    LET byDetect == Take(sorted, UniqueIndex([k \in 1..Len(sorted) |-> sorted[k].detect]))
    IN  Take(byDetect, UniqueIndex([k \in 1..Len(byDetect) |-> byDetect[k].label]))
\* the values matches can have after lines 109-114, for the rows of torch.where
MatchesOf(rows) ==
    IF Len(rows) = 1 THEN {rows}
    ELSE {Matches(Take(rows, order)) : order \in ArgsortReversed(IouRank(rows))}
\* correct[matches[:, 1].astype(int), i] = True
Marked(m, i) ==
    [d \in 1..Len(met_output) |-> [t \in 1..Len(iou_v) |->
        IF t = i /\ \E k \in 1..Len(m) : m[k].detect = d THEN TRUE ELSE correct[d][t]]]

\* one iteration of the loop of lines 105-115
MetricThreshold ==
    /\ pc = "metric_loop"
    /\ iou_i <= Len(iou_v)
    /\ IF Len(Where(iou_v[iou_i])) = 0
       THEN UNCHANGED <<matches, correct>>
       ELSE \E m \in MatchesOf(Where(iou_v[iou_i])) :
                /\ matches' = m
                /\ correct' = Marked(m, iou_i)
    /\ iou_i' = iou_i + 1
    /\ UNCHANGED <<pc, nmsVars, asgVars, lossVars, met_output, met_target, iou_v, apVars, dflVars>>

\* line 116
MetricReturn ==
    /\ pc = "metric_loop"
    /\ iou_i > Len(iou_v)
    /\ pc' = "metric_done"
    /\ UNCHANGED <<nmsVars, asgVars, lossVars, metVars, apVars, dflVars>>

(***************************************************************************)
(* The inputs of compute_metric that are enumerated: labels and detections *)
(* 10 pixels high; against the first label a detection has the IoU 1, 0.9, *)
(* 0.6 or 0.6, against the second 0.67, 0.73, 0.33 or 0.6.                 *)
(***************************************************************************)
TargetCat == << [cls |-> 0, box |-> <<0, 0, 20, 10>>],
                [cls |-> 0, box |-> <<4, 0, 24, 10>>],
                [cls |-> 1, box |-> <<0, 0, 20, 10>>] >>
OutputCat == << [box |-> <<0, 0, 20, 10>>, conf |-> 900, cls |-> 0],
                [box |-> <<2, 0, 20, 10>>, conf |-> 800, cls |-> 0],
                [box |-> <<0, 0, 12, 10>>, conf |-> 700, cls |-> 0],
                [box |-> <<8, 0, 20, 10>>, conf |-> 600, cls |-> 0],
                [box |-> <<0, 0, 20, 10>>, conf |-> 500, cls |-> 1] >>
\* the sequences of different entries of a catalogue, of length 0..n
Selections(cat, n) ==
    {[k \in 1..Len(s) |-> cat[s[k]]] :
        s \in {r \in UNION {[1..m -> 1..Len(cat)] : m \in 0..Min2(n, Len(cat))} : Injective(r)}}

MetInit ==
    /\ NmsIdle
    /\ AsgIdle
    /\ LossIdle
    /\ DflIdle
    /\ ApIdle
    /\ pc = "metric_loop"
    /\ met_target \in Selections(TargetCat, MaxLabels)
    /\ met_output \in Selections(OutputCat, MaxOutputs)
    /\ iou_v = <<50, 75>>
    /\ iou_i = 1
    /\ matches = <<>>
    /\ correct = [d \in 1..Len(met_output) |-> [t \in 1..Len(iou_v) |-> FALSE]]

MetNext == MetricThreshold \/ MetricReturn
SpecMetric == MetInit /\ [][MetNext]_vars

(***************************************************************************)
(* compute_ap, src/utils/util.py:189-256: the average precision of each    *)
(* class and threshold and the two means that are returned with it.  The   *)
(* precision and recall at the best F1 (lines 228, 232 and 246-254) are    *)
(* not in the model.                                                       *)
(*                                                                         *)
(* Numbers are exact fractions.  A recall is a count over the number of    *)
(* labels: eps = 1e-16 is lost when added to a count in float64.  A        *)
(* precision is a numerator over PreDen, an interpolated precision over    *)
(* CurveDen, an average precision over ApDen.                              *)
(***************************************************************************)
\* tp.shape[1]: one column for each threshold of iou_v = <<50, 75>>
NumThresholds == Len(<<50, 75>>)
RECURSIVE Gcd(_, _)
Gcd(a, b) == IF b = 0 THEN a ELSE Gcd(b, a % b)
RECURSIVE LcmUpTo(_)
LcmUpTo(n) == IF n <= 1 THEN 1 ELSE LET l == LcmUpTo(n - 1) IN (l * n) \div Gcd(l, n)
PreDen == LcmUpTo(MaxPred)
CurveDen == PreDen * 100 * LcmUpTo(MaxTgt)
ApDen == 200 * CurveDen

\* numpy.argsort(-conf): the rows by decreasing confidence, rows of equal
\* confidence in an order that numpy's default sort does not specify
ArgsortNegated(keys) == ArgsortDescending(keys)
\* numpy.unique(target_cls, return_counts=True)
unique_classes ==
    LET s == Range(target_cls)
    IN  [p \in 1..Cardinality(s) |-> CHOOSE c \in s : Cardinality({e \in s : e < c}) = p - 1]
nt(c) == Cardinality({k \in 1..Len(target_cls) : target_cls[k] = c})
\* the rows of i = pred_cls == c, in their order
ClassRows(c) == SelectSeq([k \in 1..Len(pred_cls) |-> k], LAMBDA k : pred_cls[k] = c)
\* tp[i].cumsum(0)[:, j]
tpc(rows, j) ==
    Tab([k \in 1..Len(rows) |-> Cardinality({l \in 1..k : tp[rows[l]][j]})])
\* m_rec = [0.0] + recall[:, j] + [1.0], over nl
MRec(cum, nl) ==
    Tab([k \in 1..(Len(cum) + 2) |->
            IF k = 1 THEN 0 ELSE IF k = Len(cum) + 2 THEN nl ELSE cum[k - 1]])
\* a precision that is not divided by tpc + fpc
MPreUndivided(cum) ==
    Tab([k \in 1..(Len(cum) + 2) |->
            IF k = 1 THEN PreDen ELSE IF k = Len(cum) + 2 THEN 0 ELSE cum[k - 1] * PreDen])
\* m_pre = [1.0] + precision[:, j] + [0.0], over PreDen; tpc + fpc is the number of
\* the row
MPre(cum) ==
    Tab([k \in 1..(Len(cum) + 2) |->
            IF k = 1 THEN PreDen ELSE IF k = Len(cum) + 2 THEN 0
            ELSE (cum[k - 1] * PreDen) \div (k - 1)])
\* the precisions without the correction
NoEnvelope(pre) == pre
\* numpy.flip(numpy.maximum.accumulate(numpy.flip(m_pre)))
Envelope(pre) ==
    Tab([k \in 1..Len(pre) |-> SeqMax([l \in 1..(Len(pre) - k + 1) |-> pre[k + l - 1]])])
\* numpy.interp(x, m_rec, m_pre) at x = k / 100, over CurveDen.  numpy looks for
\* the point j by stepping from the first point while the next one is at or below
\* x (its search for arrays of a few points), which for an increasing m_rec is the
\* last point with m_rec[j] <= x; m_rec is not increasing when a class has more
\* true positives than labels.  The value is m_pre[j] at the last point and where
\* m_rec[j] is x, and on the line to the next point elsewhere
Interp(k, rec, nl, pre) ==
    LET j == CHOOSE i \in 1..Len(rec) :
                /\ i = Len(rec) \/ 100 * rec[i + 1] > k * nl
                /\ \A h \in 2..i : 100 * rec[h] <= k * nl
        scale == 100 * LcmUpTo(MaxTgt)
    IN  IF j = Len(rec) THEN pre[j] * scale
        ELSE IF 100 * rec[j] = k * nl THEN pre[j] * scale
        ELSE pre[j] * scale
                + ((pre[j + 1] - pre[j]) * (k * nl - 100 * rec[j]) * LcmUpTo(MaxTgt))
                    \div (rec[j + 1] - rec[j])
RECURSIVE SumTo(_, _)
SumTo(f, k) == IF k = 0 THEN f[0] ELSE f[k] + SumTo(f, k - 1)
\* numpy.trapz(y, x) over x = numpy.linspace(0, 1, 101), over ApDen
Trapz(y) == SumTo(Tab([k \in 0..99 |-> y[k] + y[k + 1]]), 99)
\* the integral for one curve <<m_rec, m_pre>>
Integral(curve, nl) ==
    Trapz(Tab([k \in 0..100 |-> Interp(k, curve[1], nl, curve[2])]))
\* ap[ci, j]; the cumulated counts and the curve are bound as values, which are
\* then tabulated once
ApOf(rows, j, nl) ==
    CHOOSE a \in {Integral(curve, nl) :
                    curve \in {<<MRec(cum, nl), Envelope(MPre(cum))>> : cum \in {tpc(rows, j)}}} :
        TRUE
\* the row of ap of a class: left at zero when the class has no detection
ApRow(c) ==
    LET rows == ClassRows(c)
    IN  [j \in 1..Len(ap[ci]) |-> IF Len(rows) = 0 THEN ap[ci][j] ELSE ApOf(rows, j, nt(c))]
\* m_pre after line 240, for every threshold: as it was when the class has no
\* detection and the iteration ends at `continue`
Envelopes(c) ==
    LET rows == ClassRows(c)
    IN  IF Len(rows) = 0 THEN m_pre
        ELSE [j \in 1..Len(ap[ci]) |-> Envelope(MPre(tpc(rows, j)))]

\* lines 202-213
ApSort ==
    /\ pc = "ap_called"
    /\ \E order \in ArgsortNegated(conf) :
        /\ tp' = [k \in 1..Len(order) |-> tp[order[k]]]
        /\ conf' = [k \in 1..Len(order) |-> conf[order[k]]]
        /\ pred_cls' = [k \in 1..Len(order) |-> pred_cls[order[k]]]
    /\ ap' = [c \in 1..Len(unique_classes) |-> [j \in 1..NumThresholds |-> 0]]
    /\ ci' = 1
    /\ pc' = "ap_loop"
    /\ UNCHANGED <<nmsVars, asgVars, lossVars, metVars, target_cls, m_pre, returned, dflVars>>

\* one iteration of the loop of lines 214-244
ApClass ==
    /\ pc = "ap_loop"
    /\ ci <= Len(unique_classes)
    /\ ap' = [ap EXCEPT ![ci] = ApRow(unique_classes[ci])]
    /\ m_pre' = Envelopes(unique_classes[ci])
    /\ ci' = ci + 1
    /\ UNCHANGED <<pc, nmsVars, asgVars, lossVars, metVars, tp, conf, pred_cls, target_cls,
                   returned, dflVars>>

\* ap50.mean() and ap.mean(), as <<numerator, denominator>>
Means ==
    [map50   |-> << SeqSum([c \in 1..Len(ap) |-> ap[c][1]]), Len(ap) * ApDen >>,
     mean_ap |-> << SeqSum([c \in 1..Len(ap) |-> SeqSum(ap[c])]),
                    Len(ap) * NumThresholds * ApDen >>]

\* lines 253-256
ApReturn ==
    /\ pc = "ap_loop"
    /\ ci > Len(unique_classes)
    /\ returned' = Means
    /\ pc' = "ap_done"
    /\ UNCHANGED <<nmsVars, asgVars, lossVars, metVars, tp, conf, pred_cls, target_cls, ci, ap,
                   m_pre, dflVars>>

(***************************************************************************)
(* The inputs of compute_ap that are enumerated: detections of two classes *)
(* at two thresholds, a detection correct at the second threshold being    *)
(* correct at the first.  The function takes any flags: a class can have   *)
(* more true positives in a column than it has labels.                     *)
(***************************************************************************)
TpRows == {<<TRUE, TRUE>>, <<TRUE, FALSE>>, <<FALSE, FALSE>>}
\* confidences rising with the row, or falling with the first two rows equal
ConfPatterns(n) ==
    { [k \in 1..n |-> 500 + 100 * k],
      [k \in 1..n |-> IF k <= 2 THEN 900 ELSE 900 - 100 * (k - 2)] }
\* sequences of classes in increasing order, of length 1..n
SortedClasses(n) ==
    {s \in UNION {[1..m -> 0..1] : m \in 1..n} : \A k \in 1..(Len(s) - 1) : s[k] <= s[k + 1]}
ApInputs ==
    {[tp |-> t, conf |-> cf, pred_cls |-> pcs, target_cls |-> tcs] :
        <<t, pcs, cf>> \in UNION {[1..n -> TpRows] \X [1..n -> 0..1] \X ConfPatterns(n) :
                                    n \in 0..MaxPred},
        tcs \in SortedClasses(MaxTgt)}

ApInit ==
    /\ NmsIdle
    /\ AsgIdle
    /\ LossIdle
    /\ DflIdle
    /\ MetIdle
    /\ pc = "ap_called"
    /\ \E in \in ApInputs :
        /\ tp = in.tp
        /\ conf = in.conf
        /\ pred_cls = in.pred_cls
        /\ target_cls = in.target_cls
    /\ ci = 0
    /\ ap = <<>>
    /\ m_pre = <<>>
    /\ returned = <<>>

ApNext == ApSort \/ ApClass \/ ApReturn
SpecAP == ApInit /\ [][ApNext]_vars

(***************************************************************************)
(* BoxLoss.forward, src/utils/util.py:477-481, and BoxLoss.df_loss, lines  *)
(* 486-496, for one foreground anchor: the four distances from the anchor  *)
(* to the sides of its target box, each spread over the two bins around    *)
(* it.  Distances and weights are in hundredths.  cross_entropy reads the  *)
(* negative log-probability of a bin; pred_dist holds these in place of    *)
(* the logits.                                                             *)
(***************************************************************************)
Sides == 1..4
\* target.clamp(0, self.dfl_ch), without the margin of 0.01
ClampToDflCh(t) == Max2(0, Min2(t, dfl_ch * 100))
\* target.clamp(0, self.dfl_ch - 0.01)
Clamp(t) == Max2(0, Min2(t, dfl_ch * 100 - 1))
\* Tensor.long(): the fraction is cut off, towards zero
Long(t) == IF t >= 0 THEN t \div 100 ELSE -((-t) \div 100)
\* the bins of a distribution: indices 0..dfl_ch
Bins == 0..dfl_ch
\* cross_entropy(pred_dist, bin, reduction='none') for one side
CrossEntropy(s, bin) == pred_dist[s][bin + 1]

\* lines 478-480: target = cat(anchor_points - a, b - anchor_points), clamped
DflTarget ==
    /\ pc = "dfl_called"
    /\ target' = [s \in Sides |->
                    Clamp(IF s <= 2 THEN dfl_anchor[s] - dfl_bbox[s]
                          ELSE dfl_bbox[s] - dfl_anchor[s - 2])]
    /\ pc' = "dfl_target"
    /\ UNCHANGED <<nmsVars, asgVars, lossVars, metVars, apVars, dfl_ch, dfl_anchor, dfl_bbox,
                   pred_dist, tl, tr, wl, wr, loss_dfl>>

\* lines 489-496; cross_entropy raises for a class index that is not a bin
DfLoss ==
    /\ pc = "dfl_target"
    /\ tl' = [s \in Sides |-> Long(target[s])]
    /\ tr' = [s \in Sides |-> tl'[s] + 1]
    /\ wl' = [s \in Sides |-> tr'[s] * 100 - target[s]]
    /\ wr' = [s \in Sides |-> 100 - wl'[s]]
    /\ IF \A s \in Sides : tl'[s] \in Bins /\ tr'[s] \in Bins
       THEN /\ loss_dfl' = SeqSum([s \in Sides |->
                                CrossEntropy(s, tl'[s]) * wl'[s]
                                    + CrossEntropy(s, tr'[s]) * wr'[s]])
            /\ pc' = "dfl_done"
       ELSE /\ loss_dfl' = loss_dfl
            /\ pc' = "dfl_raised"
    /\ UNCHANGED <<nmsVars, asgVars, lossVars, metVars, apVars, dfl_ch, dfl_anchor, dfl_bbox,
                   pred_dist, target>>

(***************************************************************************)
(* The inputs of the DFL part that are enumerated: an anchor at (2.5, 2.5) *)
(* and boxes whose sides lie at whole and at broken distances from it, on  *)
(* the wrong side of it, and farther than dfl_ch.                          *)
(***************************************************************************)
DflBoxes == {50, 150, 249, 300} \X {175, 250} \X {251, 349, 550, 1000} \X {350, 449}
\* one row of negative log-probabilities for each side: all bins alike, or the
\* bins the less likely the farther they are from bin 0
DflDists(n) ==
    { [s \in Sides |-> [b \in 1..(n + 1) |-> 139]],
      [s \in Sides |-> [b \in 1..(n + 1) |-> 20 * s + 60 * b]] }

DflInit ==
    /\ NmsIdle
    /\ AsgIdle
    /\ LossIdle
    /\ MetIdle
    /\ ApIdle
    /\ pc = "dfl_called"
    /\ dfl_ch \in 1..MaxDflCh
    /\ dfl_anchor = <<250, 250>>
    /\ dfl_bbox \in DflBoxes
    /\ pred_dist \in DflDists(dfl_ch)
    /\ target = <<>> /\ tl = <<>> /\ tr = <<>> /\ wl = <<>> /\ wr = <<>>
    /\ loss_dfl = 0

DflNext == DflTarget \/ DfLoss
SpecDfl == DflInit /\ [][DflNext]_vars

(***************************************************************************)
(* Claims about non_max_suppression.  The overlap of two boxes is stated    *)
(* here on its own, apart from the operators of the model.                  *)
(***************************************************************************)
\* the image whose iteration ended last (0: none yet)
last == IF pc = "nms_done" /\ index <= bs THEN index ELSE index - 1
\* x holds the sorted detections matrix of image `last`, output[last] is x[i]
Processed == x # <<>>
Kept(r) == \E o \in 1..Len(output[last]) : output[last][o] = r

Width(a, b) == Max2(0, Min2(a[3], b[3]) - Max2(a[1], b[1]))
Height(a, b) == Max2(0, Min2(a[4], b[4]) - Max2(a[2], b[2]))
IntersectionArea(a, b) == Width(a, b) * Height(a, b)
UnionArea(a, b) == (a[3] - a[1]) * (a[4] - a[2]) + (b[3] - b[1]) * (b[4] - b[2])
                   - IntersectionArea(a, b)
\* IoU(a, b) > iou_threshold
Overlapping(a, b) == IntersectionArea(a, b) * 100 > iou_threshold * UnionArea(a, b)
\* the box moved by 7680 pixels per class index, in x and in y
Moved(r) == [k \in 1..4 |-> r.box[k] + r.cls * 7680]
\* all four coordinates within the 7680 pixels
InRange(r) == \A k \in 1..4 : 0 <= r.box[k] /\ r.box[k] <= 7680
\* r is a survivor that falls beyond the first max_det
Beyond(r) == /\ Len(output[last]) = 300
             /\ \A o \in 1..Len(output[last]) : output[last][o].conf >= r.conf

\* C3: in the detections returned for an image no two rows of the same class have
\* boxes whose IoU is above iou_threshold.
C3_NoOverlapWithinClass ==
    \A j \in 1..Len(output) : \A a, b \in 1..Len(output[j]) :
        (a < b /\ output[j][a].cls = output[j][b].cls)
            => ~Overlapping(output[j][a].box, output[j][b].box)
\* two candidates of one class overlapped above the threshold and one was dropped
C3_Witness ==
    /\ Processed
    /\ Len(output[last]) >= 1
    /\ \E a, b \in 1..Len(x) :
          /\ a # b /\ x[a].cls = x[b].cls /\ Overlapping(x[a].box, x[b].box)
          /\ Kept(x[a]) /\ ~Kept(x[b])

\* C4, as claimed: whatever the coordinates, the boxes of two candidates of
\* different classes, moved by class_index * 7680, do not intersect.
C4_NeverCollide ==
    \A a, b \in 1..Len(x) :
        x[a].cls # x[b].cls => IntersectionArea(OffsetBox(x[a]), OffsetBox(x[b])) = 0
\* C4, amended: two candidates of different classes whose corner coordinates all
\* lie in [0, 7680] have offset boxes with an empty intersection, so that neither
\* can suppress the other.
C4_NoCollisionInRange ==
    \A a, b \in 1..Len(x) :
        (x[a].cls # x[b].cls /\ InRange(x[a]) /\ InRange(x[b]))
            => /\ IntersectionArea(OffsetBox(x[a]), OffsetBox(x[b])) = 0
               /\ ~Overlapping(OffsetBox(x[a]), OffsetBox(x[b]))
\* two candidates of different classes with one and the same box, both returned
C4_Witness ==
    /\ Processed
    /\ \E a, b \in 1..Len(x) :
          /\ x[a].cls # x[b].cls /\ x[a].box = x[b].box
          /\ InRange(x[a]) /\ Kept(x[a]) /\ Kept(x[b])

NumCandidates(img) ==
    Cardinality({p \in 1..Len(img) : \E c \in 1..nc : img[p].cls[c] > conf_threshold})
\* number of (position, class) pairs of an image whose score exceeds the threshold
NumLabels(img) ==
    Cardinality({pc2 \in (1..Len(img)) \X (1..nc) : img[pc2[1]].cls[pc2[2]] > conf_threshold})
\* C6, as claimed: at most 300 detections and at most as many as candidates of
\* step 1, for one class and for several.
C6_AtMostCandidates ==
    \A j \in 1..Len(output) :
        Len(output[j]) <= 300 /\ Len(output[j]) <= NumCandidates(outputs[j])
\* C6, amended: at most 300 detections and at most as many as (position, class)
\* pairs whose score exceeds conf_threshold; for a single class that is the number
\* of candidates of step 1.
C6_AtMostLabels ==
    \A j \in 1..Len(output) :
        /\ Len(output[j]) <= 300
        /\ Len(output[j]) <= NumLabels(outputs[j])
        /\ nc = 1 => Len(output[j]) <= NumCandidates(outputs[j])
\* more than 300 survivors, cut to 300
C6_Witness ==
    /\ Processed
    /\ Len(x) > 300
    /\ Len(output[last]) = 300
    /\ \A a, b \in {1, Len(x)} : a # b => ~Overlapping(x[a].box, x[b].box)

\* C7, as claimed: a candidate is absent only if a kept box of its class and of
\* no lower confidence overlaps it above the threshold, or it falls beyond the first
\* 300 survivors; of two overlapping candidates of a class only the one of higher
\* confidence is kept.
C7_GreedyAsClaimed ==
    Processed =>
        /\ \A k \in 1..Len(x) :
              ~Kept(x[k]) =>
                 \/ \E o \in 1..Len(output[last]) :
                       /\ output[last][o].cls = x[k].cls
                       /\ output[last][o].conf >= x[k].conf
                       /\ Overlapping(output[last][o].box, x[k].box)
                 \/ Beyond(x[k])
        /\ \A k, l \in 1..Len(x) :
              (x[k].cls = x[l].cls /\ x[k].conf > x[l].conf
               /\ Overlapping(x[k].box, x[l].box)) => ~Kept(x[l])
\* C7, amended: a candidate is absent only if a kept box of no lower confidence
\* overlaps it above the threshold once both are moved by class_index * 7680 (a box
\* of its own class when the coordinates of both lie in [0, 7680]), or it falls
\* beyond the first 300 survivors; of two overlapping candidates of a class at most
\* one is kept, and the one of lower confidence only if the other is not kept.
C7_Greedy ==
    Processed =>
        /\ \A k \in 1..Len(x) :
              ~Kept(x[k]) =>
                 \/ \E o \in 1..Len(output[last]) :
                       /\ output[last][o].conf >= x[k].conf
                       /\ Overlapping(Moved(output[last][o]), Moved(x[k]))
                       /\ (InRange(output[last][o]) /\ InRange(x[k]))
                             => output[last][o].cls = x[k].cls
                 \/ Beyond(x[k])
        /\ \A k, l \in 1..Len(x) :
              (k # l /\ x[k].cls = x[l].cls /\ Overlapping(x[k].box, x[l].box))
                 => ~(Kept(x[k]) /\ Kept(x[l]))
\* three candidates of a class in a row: the first suppresses the second, and the
\* third, which only the second overlaps, is kept
C7_Witness ==
    /\ Processed
    /\ \E k, l, m \in 1..Len(x) :
          /\ x[k].cls = x[l].cls /\ x[l].cls = x[m].cls
          /\ x[k].conf >= x[l].conf /\ x[l].conf >= x[m].conf
          /\ Overlapping(x[k].box, x[l].box) /\ Overlapping(x[l].box, x[m].box)
          /\ ~Overlapping(x[k].box, x[m].box)
          /\ Kept(x[k]) /\ ~Kept(x[l]) /\ Kept(x[m])

(***************************************************************************)
(* Claims about Assigner.forward.                                          *)
(***************************************************************************)
\* the resolution of the anchors claimed more than once is over
AsgResolved == pc \in {"asg_targets", "asg_returned"} /\ max_boxes > 0
\* the ground truths an anchor is positive for
PositiveFor(b, a) == {g \in 1..Len(mask_pos[b]) : mask_pos[b][g][a] # 0}
\* the ground truths that claimed an anchor before the resolution
ClaimedBy(b, a) ==
    {g \in 1..Len(mask_top_k[b]) :
        /\ mask_top_k[b][g][a] # 0
        /\ mask_gt[b][g] # 0
        /\ InsideBox(anc_points[a], gt_bboxes[b][g])}

\* C1: in the assignment that Assigner.forward returns for an input with at least
\* one ground-truth column, every anchor of every image is positive for at most
\* one ground truth: the positive mask, summed over the ground truths, is 0 or 1
\* at every anchor once the conflict resolution has run, and the returned
\* foreground mask is true at the anchors where it is 1.
C1_AtMostOneGt ==
    AsgResolved =>
        \A b \in 1..Len(mask_pos) : \A a \in 1..Len(anc_points) :
            /\ Cardinality(PositiveFor(b, a)) <= 1
            /\ \A g \in PositiveFor(b, a) : mask_pos[b][g][a] = 1
            /\ fg_mask[b][a] = Cardinality(PositiveFor(b, a))
            /\ pc = "asg_returned" => (assigned[3][b][a] <=> PositiveFor(b, a) # {})
\* an anchor claimed by two ground truths has been resolved to one of them
C1_Witness ==
    /\ AsgResolved
    /\ pc = "asg_returned"
    /\ \E b \in 1..Len(mask_pos) : \E a \in 1..Len(anc_points) :
        /\ Cardinality(ClaimedBy(b, a)) >= 2
        /\ Cardinality(PositiveFor(b, a)) = 1

\* C16: the conflict resolution only removes claims: for an anchor claimed by
\* more than one ground truth, the ground truth that is kept is one of those that
\* claimed it (anchor in its top-k, inside its box, ground truth valid) and has the
\* greatest overlap among them; so every pair of the final positive mask is inside
\* the box of a valid ground truth.
C16_KeptIsBestClaimant ==
    AsgResolved =>
        \A b \in 1..Len(mask_pos) : \A a \in 1..Len(anc_points) :
            /\ Cardinality(ClaimedBy(b, a)) >= 2 =>
                \A g \in PositiveFor(b, a) :
                    /\ g \in ClaimedBy(b, a)
                    /\ \A h \in ClaimedBy(b, a) : overlaps[b][h][a] <= overlaps[b][g][a]
            /\ \A g \in PositiveFor(b, a) :
                mask_gt[b][g] # 0 /\ InsideBox(anc_points[a], gt_bboxes[b][g])

\* forward has returned on its main path
AsgReturned == pc = "asg_returned" /\ max_boxes > 0
\* the classes with a score that is not zero at an anchor
ScoredClasses(b, a) == {c \in 1..Len(assigned[2][b][a]) : assigned[2][b][a][c] # 0}

\* C15: for an input with at least one ground-truth column, target_scores is
\* non-negative everywhere, its sum over the classes is zero at every anchor that
\* is not foreground, and at a foreground anchor only the class of the ground
\* truth assigned to it can have a score that is not zero.
C15_ScoresOnForeground ==
    AsgReturned =>
        \A b \in 1..Len(assigned[2]) : \A a \in 1..Len(assigned[2][b]) :
            /\ \A c \in 1..Len(assigned[2][b][a]) : assigned[2][b][a][c] >= 0
            /\ ~assigned[3][b][a] => SeqSum(assigned[2][b][a]) = 0
            /\ assigned[3][b][a] =>
                \A c \in ScoredClasses(b, a) : c - 1 = gt_labels[b][assigned[4][b][a] + 1]
\* returned for a batch of two images: a foreground anchor of the second image with
\* a score, assigned to a ground truth whose class is not that of the ground truth
\* at the same place in the first image, and an anchor that is not foreground
C15_Witness ==
    /\ AsgReturned
    /\ Len(assigned[2]) = 2
    /\ \E a \in 1..Len(assigned[2][2]) :
        /\ assigned[3][2][a]
        /\ ScoredClasses(2, a) # {}
        /\ gt_labels[2][assigned[4][2][a] + 1] # gt_labels[1][assigned[4][2][a] + 1]
    /\ \E b \in 1..2 : \E a \in 1..Len(assigned[2][b]) : ~assigned[3][b][a]

(***************************************************************************)
(* Claims about ComputeLoss.__call__.                                      *)
(***************************************************************************)
\* ComputeLoss runs on a batch without any ground-truth instance
EmptyBatch == pred_scores # <<>> /\ Len(targets) = 0

\* C2: for a batch with zero ground-truth instances the Assigner returns an
\* all-background assignment in the four-output form of a non-empty batch (target
\* boxes all zero, target scores all zero, no foreground anchor, assigned index),
\* ComputeLoss.__call__ does not raise, and the scalar it returns is the gained
\* classification term alone.
C2_EmptyBatchIsBackground ==
    EmptyBatch =>
        /\ pc # "loss_raised"
        /\ pc \in {"asg_returned", "loss_terms", "loss_returned"} =>
            /\ Len(assigned) = 4
            /\ \A b \in 1..Len(pred_scores) : \A a \in 1..Len(pred_scores[b]) :
                /\ assigned[1][b][a] = <<0, 0, 0, 0>>
                /\ \A c \in 1..Len(pred_scores[b][a]) : assigned[2][b][a][c] = 0
                /\ assigned[3][b][a] = FALSE
        /\ pc = "loss_returned" => loss.sum = loss.terms[1]

\* ComputeLoss has returned for a batch with instances in which the Assigner
\* marked no anchor as foreground
NoForeground == pc = "loss_returned" /\ Len(targets) > 0 /\ FgSum = 0

\* C14: for a batch with ground-truth instances in which the Assigner marks no
\* anchor as foreground, ComputeLoss.__call__ returns; the box, DFL, keypoint and
\* keypoint-visibility terms stay 0, the target-score sum is floored at 1, so that
\* nothing is divided by zero, and the returned scalar is the classification term
\* times its gain.
C14_NoForegroundIsClsOnly ==
    /\ (Len(targets) > 0 /\ pred_scores # <<>>) => pc # "loss_raised"
    /\ NoForeground =>
        /\ \A k \in 2..5 : loss.terms[k] = 0
        /\ ScoresSum = 0
        /\ loss.den = 200 * 512 * batch_size
        /\ loss.terms[1] = params.cls * BceSum * batch_size
        /\ loss.sum = loss.terms[1]
\* such a batch, with a classification term that is not zero
C14_Witness == NoForeground /\ loss.sum > 0

(***************************************************************************)
(* Claims about compute_metric.                                            *)
(***************************************************************************)
MetricRunning == pc \in {"metric_loop", "metric_done"}
\* label l and detection d have the same class and an IoU of at least t hundredths
Candidate(l, d, t) ==
    /\ met_target[l].cls = met_output[d].cls
    /\ IntersectionArea(met_target[l].box, met_output[d].box) * 100
            >= t * UnionArea(met_target[l].box, met_output[d].box)
\* IoU(l1, d1) <= IoU(l2, d2)
NoBetter(l1, d1, l2, d2) ==
    IntersectionArea(met_target[l1].box, met_output[d1].box)
            * UnionArea(met_target[l2].box, met_output[d2].box)
        <= IntersectionArea(met_target[l2].box, met_output[d2].box)
            * UnionArea(met_target[l1].box, met_output[d1].box)
\* the detections marked correct in column i
CorrectAt(i) == {d \in 1..Len(met_output) : correct[d][i]}
\* some pair is a candidate at the threshold of column i
HasCandidates(i) ==
    \E l \in 1..Len(met_target) : \E d \in 1..Len(met_output) : Candidate(l, d, iou_v[i])

\* C8: at each threshold the detections marked correct are matched one-to-one with
\* labels: every one has a label of its class at or above the threshold, no label
\* serves two of them and no detection is matched twice, so that a column has at
\* most as many correct detections as there are labels.
C8_OneToOne ==
    MetricRunning =>
        \A i \in 1..(iou_i - 1) :
            /\ \E f \in [CorrectAt(i) -> 1..Len(met_target)] :
                /\ \A d \in CorrectAt(i) : Candidate(f[d], d, iou_v[i])
                /\ \A d, e \in CorrectAt(i) : d # e => f[d] # f[e]
            /\ Cardinality(CorrectAt(i)) <= Len(met_target)
            /\ (i = iou_i - 1 /\ HasCandidates(i)) =>
                /\ \A k, l \in 1..Len(matches) :
                    k # l => /\ matches[k].label # matches[l].label
                             /\ matches[k].detect # matches[l].detect
                /\ CorrectAt(i) = {matches[k].detect : k \in 1..Len(matches)}
\* after the first threshold: a label with two candidate detections and a detection
\* with two candidate labels, and a detection marked correct
C8_Witness ==
    /\ pc = "metric_loop"
    /\ iou_i = 2
    /\ \E l \in 1..Len(met_target) : \E d, e \in 1..Len(met_output) :
        d # e /\ Candidate(l, d, iou_v[1]) /\ Candidate(l, e, iou_v[1])
    /\ \E d \in 1..Len(met_output) : \E l, m \in 1..Len(met_target) :
        l # m /\ Candidate(l, d, iou_v[1]) /\ Candidate(m, d, iou_v[1])
    /\ CorrectAt(1) # {}

\* C9: at each threshold, the match kept for a label is the candidate of that label
\* with the highest IoU, and the match kept for a detection is the candidate of
\* that detection with the highest IoU.
C9_KeptIsBest ==
    (MetricRunning /\ iou_i > 1 /\ HasCandidates(iou_i - 1)) =>
        \A k \in 1..Len(matches) :
            \A l \in 1..Len(met_target) : \A d \in 1..Len(met_output) :
                Candidate(l, d, iou_v[iou_i - 1]) =>
                    /\ l = matches[k].label =>
                        NoBetter(l, d, matches[k].label, matches[k].detect)
                    /\ d = matches[k].detect =>
                        NoBetter(l, d, matches[k].label, matches[k].detect)

\* C17: correctness is monotone in the threshold: a detection marked correct at a
\* threshold of iou_v is marked correct at every lower threshold of iou_v, so that
\* the number of correct detections does not grow with the threshold.
C17_MonotoneInThreshold ==
    MetricRunning =>
        \A i, j \in 1..Len(iou_v) :
            iou_v[i] < iou_v[j] =>
                /\ \A d \in 1..Len(met_output) : correct[d][j] => correct[d][i]
                /\ Cardinality(CorrectAt(j)) <= Cardinality(CorrectAt(i))

(***************************************************************************)
(* Claims about compute_ap.                                                *)
(***************************************************************************)
\* the detections of class c
OfClass(c) == {k \in 1..Len(pred_cls) : pred_cls[k] = c}
\* the labels of class c
LabelsOf(c) == {k \in 1..Len(target_cls) : target_cls[k] = c}
\* at threshold j the detections of class c are a perfect prediction set: all of
\* them true positives, and as many as there are labels of the class
Perfect(c, j) ==
    /\ LabelsOf(c) # {}
    /\ Cardinality(OfClass(c)) = Cardinality(LabelsOf(c))
    /\ \A k \in OfClass(c) : tp[k][j]
\* the row of ap of class c
RowOf(c) == CHOOSE p \in 1..Len(ap) : Cardinality({e \in Range(target_cls) : e < c}) = p - 1

\* C10: for a perfect prediction set of a class the average precision computed for
\* that class is exactly 1.0.
C10_PerfectIsOne ==
    pc = "ap_done" =>
        \A c \in Range(target_cls) : \A j \in 1..Len(ap[RowOf(c)]) :
            Perfect(c, j) => ap[RowOf(c)][j] = ApDen

\* the true positives of class c in column j
TruePositives(c, j) == {k \in OfClass(c) : tp[k][j]}
\* a fraction <<numerator, denominator>> in [0, 1]
InUnit(q) == 0 <= q[1] /\ q[1] <= q[2]

\* C11: for every input, every average precision of a class at a threshold lies in
\* [0, 1], a class without a detection gets 0, and so the two means that are
\* returned lie in [0, 1] too.
C11_ApInUnitInterval ==
    pc \in {"ap_loop", "ap_done"} =>
        /\ \A c \in 1..Len(ap) : \A j \in 1..Len(ap[c]) :
            /\ 0 <= ap[c][j]
            /\ ap[c][j] <= ApDen
            /\ OfClass(unique_classes[c]) = {} => ap[c][j] = 0
        /\ pc = "ap_done" => InUnit(returned.map50) /\ InUnit(returned.mean_ap)
\* returned: a class with more true positives than labels and a positive average
\* precision, and a class with labels and no detection
C11_Witness ==
    /\ pc = "ap_done"
    /\ \E c \in Range(target_cls) :
        /\ Cardinality(TruePositives(c, 1)) > Cardinality(LabelsOf(c))
        /\ ap[RowOf(c)][1] > 0
    /\ \E c \in Range(target_cls) : OfClass(c) = {} /\ ap[RowOf(c)][1] = 0

\* C12: after the envelope correction the precisions of a class, in the order of
\* decreasing confidence and with the two sentinels, never increase: each value
\* is at least every value at a higher recall.
C12_EnvelopeNonIncreasing ==
    pc \in {"ap_loop", "ap_done"} =>
        \A j \in 1..Len(m_pre) : \A k, l \in 1..Len(m_pre[j]) :
            k < l => m_pre[j][k] >= m_pre[j][l]
\* a class was processed whose precisions rise somewhere: a false positive is
\* followed by a true positive, and the envelope is above the precision there
C12_Witness ==
    /\ pc = "ap_loop"
    /\ ci > 1
    /\ Len(m_pre) > 0
    /\ LET rows == ClassRows(unique_classes[ci - 1])
       IN  /\ Len(rows) >= 2
           /\ \E k \in 1..(Len(rows) - 1) : ~tp[rows[k]][1] /\ tp[rows[k + 1]][1]
           /\ \E k \in 1..Len(rows) : m_pre[1][k + 1] > MPre(tpc(rows, 1))[k + 1]

(***************************************************************************)
(* Claims about BoxLoss.df_loss.                                           *)
(***************************************************************************)
\* C13: for every target distance after the clamp to [0, dfl_ch - 0.01] the left
\* bin is the integer part of the target and the right bin is the next one, both
\* among the dfl_ch + 1 bins, so that cross_entropy does not raise; the left
\* weight is right - target and the right weight is target - left, both are in
\* [0, 1] and they sum to 1; for a whole target the right weight is 0 and the
\* loss of the side is the cross-entropy against the left bin alone.
C13_TwoBins ==
    /\ pc # "dfl_raised"
    /\ pc = "dfl_done" =>
        /\ \A s \in Sides :
            /\ 0 <= target[s] /\ target[s] <= dfl_ch * 100 - 1
            /\ tl[s] * 100 <= target[s] /\ target[s] < (tl[s] + 1) * 100
            /\ tr[s] = tl[s] + 1
            /\ tl[s] \in Bins /\ tr[s] \in Bins
            /\ wl[s] = tr[s] * 100 - target[s]
            /\ wr[s] = target[s] - tl[s] * 100
            /\ wl[s] \in 0..100 /\ wr[s] \in 0..100
            /\ wl[s] + wr[s] = 100
            /\ target[s] % 100 = 0 => wr[s] = 0 /\ wl[s] = 100
        /\ loss_dfl = SeqSum([s \in Sides |->
                            IF target[s] % 100 = 0 THEN CrossEntropy(s, tl[s]) * 100
                            ELSE CrossEntropy(s, tl[s]) * wl[s]
                                    + CrossEntropy(s, tr[s]) * wr[s]])
\* df_loss has returned for an anchor with a side at a whole distance of at least
\* one bin, a side at a broken distance and a side beyond the last bin
C13_Witness ==
    /\ pc = "dfl_done"
    /\ \E s \in Sides : target[s] % 100 = 0 /\ target[s] >= 100
    /\ \E s \in Sides : target[s] % 100 # 0 /\ target[s] < dfl_ch * 100 - 1
    /\ \E s \in 3..4 : dfl_bbox[s] - dfl_anchor[s - 2] > dfl_ch * 100

====
